---- MODULE Spec2Model ----
(***************************************************************************)
(* A model of AdvancedDiagnosticGUI (src/app.py): the scan thread          *)
(* (run_diagnostics), the five component scorers, generate_predictions,    *)
(* and the Tk main loop that runs start_scan, the component checkboxes     *)
(* and the callbacks the scan thread schedules with root.after(0, ...).    *)
(*                                                                         *)
(* Numbers.  Python computes the scores in floating point; the model       *)
(* computes them as exact rationals.  A health score is held as an         *)
(* integer number of 1/Scale points, so that the battery formula (steps    *)
(* of 1/200 for an uptime given in tenths of a day), the mean over up to   *)
(* MaxParts partitions or MaxSensors sensors and the mean over up to five  *)
(* components are all exact.  Percentages and temperatures are held in     *)
(* tenths (901 is 90.1).                                                   *)
(*                                                                         *)
(* Not modelled: the status label (update_status), the charts and the      *)
(* overview tree, which nothing reads back.                                *)
(***************************************************************************)
EXTENDS Integers, Sequences, FiniteSets, TLC

\* Bounds of the model: the longest partition list and sensor list a reader
\* returns, and the most checkbox clicks while one scan is under way.
MaxParts == 2
MaxSensors == 2
MaxToggles == 1

Max(a, b) == IF a >= b THEN a ELSE b
Min(a, b) == IF a <= b THEN a ELSE b

RECURSIVE Gcd(_, _)
Gcd(a, b) == IF b = 0 THEN a ELSE Gcd(b, a % b)

RECURSIVE LcmUpTo(_)
LcmUpTo(n) == IF n <= 1 THEN 1 ELSE (LcmUpTo(n - 1) * n) \div Gcd(LcmUpTo(n - 1), n)

\* One health point is Scale units: 200 for the battery formula, 60 for a
\* mean over one to five components, and the least common multiple of the
\* list lengths for the storage and temperature means.
Scale == 200 * 60 * LcmUpTo(Max(MaxParts, MaxSensors))

Points(n) == n * Scale

RECURSIVE SumSeq(_)
SumSeq(s) == IF s = <<>> THEN 0 ELSE Head(s) + SumSeq(Tail(s))

\* sum(xs) / len(xs), xs a non-empty sequence of scores in Scale units.
Mean(xs) == SumSeq(xs) \div Len(xs)

\* num/den rounded to the nearest 1/m, a tie going to the even neighbour
\* (num >= 0, den > 0); the result counts 1/m units.
RoundDec(num, den, m) ==
    LET q == (m * num) \div den
        r == (m * num) % den
    IN  IF 2 * r > den THEN q + 1
        ELSE IF 2 * r < den THEN q
        ELSE IF q % 2 = 0 THEN q ELSE q + 1

\* round(num/den, 1) and f"{num/den:.1f}", in tenths.
RoundTenths(num, den) == RoundDec(num, den, 10)

\* d[k] = v on a dict, whether or not k was a key.
Put(d, k, v) == (k :> v) @@ d

Empty == <<>>

ComponentNames == {"battery", "memory", "storage", "temperature", "performance"}

(***************************************************************************)
(* The readings.  A reader either raises (kind "error") or returns a       *)
(* value; the fields a scorer never reads (power_plugged, secsleft,        *)
(* available memory, mount point, sensor high and critical thresholds,     *)
(* CPU frequency and core count) are left out.                             *)
(***************************************************************************)

ReaderError == [kind |-> "error"]

\* ---- check_battery_health ------------------------------------------------

typical_lifespan_cycles == 500

\* estimated_cycles = max(1, uptime_days / 2), in twentieths of a cycle for
\* an uptime in tenths of a day.
EstimatedCycles20(uptime) == Max(20, uptime)

\* health_score = max(0, min(100, 100 - estimated_cycles / 10)), in 1/200
\* points.
\* The score without max(0, ...): what the clamp at line 324 is there for.
BatteryHealthUnclamped(uptime) == 20000 - EstimatedCycles20(uptime)

BatteryHealth200(uptime) == Max(0, Min(20000, 20000 - EstimatedCycles20(uptime)))

\* The cycles left without max(0, ...): below zero past 500 cycles.
RemainingCyclesUnfloored(uptime) ==
    20 * typical_lifespan_cycles - EstimatedCycles20(uptime)

\* remaining_cycles = max(0, typical_lifespan_cycles - estimated_cycles), in
\* twentieths of a cycle.
RemainingCycles20(uptime) ==
    Max(0, 20 * typical_lifespan_cycles - EstimatedCycles20(uptime))

\* A battery scorer whose except clause stores the error and scores 0.
BatteryResultNoFallback(b) ==
    IF b.kind = "error"
    THEN [data |-> [error |-> "error"], score |-> Points(0)]
    ELSE IF b.kind = "none"
    THEN [data |-> [present |-> FALSE], score |-> Points(100)]
    ELSE [data |-> [present |-> TRUE, percent |-> b.percent],
          score |-> BatteryHealth200(b.uptime) * (Scale \div 200)]

\* The entry check_battery_health stores in diagnostic_data and the score it
\* stores in health_scores, for one outcome of psutil.sensors_battery().
BatteryResult(b) ==
    IF b.kind = "error"
    THEN [data |-> [error |-> "error"], score |-> Points(50)]
    ELSE IF b.kind = "none"
    THEN [data |-> [present |-> FALSE], score |-> Points(100)]
    ELSE [data |-> [present |-> TRUE,
                    percent |-> b.percent,
                    estimated_cycles |-> EstimatedCycles20(b.uptime) \div 20,
                    health_score |-> RoundTenths(BatteryHealth200(b.uptime), 200),
                    remaining_cycles |-> RemainingCycles20(b.uptime) \div 20,
                    \* remaining_cycles / (365 / 2), rounded to one decimal
                    estimated_remaining_years |->
                        RoundTenths(RemainingCycles20(b.uptime), 3650)],
          score |-> BatteryHealth200(b.uptime) * (Scale \div 200)]

\* ---- check_memory_health -------------------------------------------------

memory_typical_lifespan == 10

\* The bands with >= for >: 90, 80 and 70 percent fall one band lower.
MemoryHealthScoreInclusive(usage_percent) ==
    IF usage_percent >= 900 THEN 30
    ELSE IF usage_percent >= 800 THEN 60
    ELSE IF usage_percent >= 700 THEN 80
    ELSE 95

\* usage_percent in tenths of a percent.
MemoryHealthScore(usage_percent) ==
    IF usage_percent > 900 THEN 30
    ELSE IF usage_percent > 800 THEN 60
    ELSE IF usage_percent > 700 THEN 80
    ELSE 95

\* The ages with > for >=: 16 GB and 8 GB fall in the older class.
MemoryAgeExclusive(total_gb) ==
    IF total_gb > 160 THEN 2
    ELSE IF total_gb > 80 THEN 4
    ELSE 6

\* total_gb in tenths of a GB.
MemoryAge(total_gb) ==
    IF total_gb >= 160 THEN 2
    ELSE IF total_gb >= 80 THEN 4
    ELSE 6

\* A memory scorer whose failure counts as a score of 0.
MemoryResultZeroOnError(m) ==
    IF m.kind = "error"
    THEN [data |-> [error |-> "error"], score |-> Points(0)]
    ELSE [data |-> [total_gb |-> m.total_gb,
                    used_percent |-> m.percent,
                    health_score |-> MemoryHealthScore(m.percent),
                    estimated_age_years |-> MemoryAge(m.total_gb),
                    estimated_remaining_years |->
                        Max(0, memory_typical_lifespan - MemoryAge(m.total_gb))],
          score |-> Points(MemoryHealthScore(m.percent))]

MemoryResult(m) ==
    IF m.kind = "error"
    THEN [data |-> [error |-> "error"], score |-> Points(50)]
    ELSE [data |-> [total_gb |-> m.total_gb,
                    used_percent |-> m.percent,
                    health_score |-> MemoryHealthScore(m.percent),
                    estimated_age_years |-> MemoryAge(m.total_gb),
                    estimated_remaining_years |->
                        Max(0, memory_typical_lifespan - MemoryAge(m.total_gb))],
          score |-> Points(MemoryHealthScore(m.percent))]

\* ---- check_storage_health ------------------------------------------------

\* 'SSD' in partition.fstype.upper(), for the file system names of the model.
FstypeHasSSD(fstype) == fstype \in {"ssdfs"}

\* 'nvme' in partition.device.lower(), for the device names of the model.
DeviceHasNvme(device) == device \in {"/dev/nvme0n1p1", "/dev/nvme0n1p2"}

\* The score of a partition with used of total GB in use (total > 0):
\* used_percent = (used / total) * 100 against 95, 85 and 70.
PartitionHealthScore(used, total) ==
    IF 100 * used > 95 * total THEN 20
    ELSE IF 100 * used > 85 * total THEN 50
    ELSE IF 100 * used > 70 * total THEN 75
    ELSE 90

PartitionAge(size_gb) == IF size_gb > 1000 THEN 2 ELSE 4

PartitionLifespan(size_gb, fstype) ==
    IF size_gb > 1000
    THEN (IF FstypeHasSSD(fstype) THEN 8 ELSE 5)
    ELSE (IF FstypeHasSSD(fstype) THEN 10 ELSE 6)

\* The value stored under storage_data[partition.device].
PartitionEntry(p) ==
    [device |-> p.device,
     filesystem |-> p.fstype,
     total_gb |-> p.total,
     used_percent |-> RoundDec(100 * p.used, p.total, 100),
     health_score |-> PartitionHealthScore(p.used, p.total),
     estimated_age_years |-> PartitionAge(p.total),
     estimated_remaining_years |->
         Max(0, PartitionLifespan(p.total, p.fstype) - PartitionAge(p.total)),
     drive_type |-> IF DeviceHasNvme(p.device) THEN "SSD" ELSE "HDD"]

\* d[key] = entry on an insertion-ordered dict held as the sequence of its
\* values, keys[i] being the key of d[i]: an existing key keeps its place
\* and takes the new value.
DictSet(d, keys, key, entry) ==
    IF \E i \in 1..Len(d) : keys[i] = key
    THEN [i \in 1..Len(d) |-> IF keys[i] = key THEN entry ELSE d[i]]
    ELSE Append(d, entry)

DeviceOf(e) == e.device

\* What the body of the partition loop does with partition p: "skip" when
\* psutil.disk_usage raises PermissionError (caught at the loop), "raise"
\* when the body raises anything else (OSError from disk_usage, or
\* ZeroDivisionError at used / total when total is 0), else "score".
PartitionStep(p) ==
    IF p.usage = "PermissionError" THEN "skip"
    ELSE IF p.usage # "ok" THEN "raise"
    ELSE IF p.total = 0 THEN "raise"
    ELSE "score"

\* The for loop over partitions from storage_data and total_health as they
\* stand: raised tells whether an exception left the loop.
RECURSIVE StorageLoop(_, _, _)
StorageLoop(partitions, storage_data, total_health) ==
    IF partitions = <<>>
    THEN [raised |-> FALSE, storage_data |-> storage_data, total_health |-> total_health]
    ELSE LET p == Head(partitions)
             step == PartitionStep(p)
         IN  IF step = "raise"
             THEN [raised |-> TRUE, storage_data |-> storage_data,
                   total_health |-> total_health]
             ELSE IF step = "skip"
             THEN StorageLoop(Tail(partitions), storage_data, total_health)
             ELSE StorageLoop(Tail(partitions),
                              DictSet(storage_data,
                                      [i \in 1..Len(storage_data) |-> DeviceOf(storage_data[i])],
                                      p.device, PartitionEntry(p)),
                              Append(total_health,
                                     Points(PartitionHealthScore(p.used, p.total))))

StorageResult(s) ==
    IF s.kind = "error"
    THEN [data |-> [error |-> "error"], score |-> Points(50)]
    ELSE LET loop == StorageLoop(s.partitions, <<>>, <<>>)
         IN  IF loop.raised
             THEN [data |-> [error |-> "error"], score |-> Points(50)]
             ELSE [data |-> [devices |-> loop.storage_data],
                   score |-> IF loop.total_health # <<>>
                             THEN Mean(loop.total_health)
                             ELSE Points(50)]

\* ---- check_temperatures --------------------------------------------------

\* current_temp in tenths of a degree.
SensorHealthScore(current_temp) ==
    IF current_temp > 800 THEN 20
    ELSE IF current_temp > 700 THEN 50
    ELSE IF current_temp > 600 THEN 75
    ELSE 95

\* temp_data[f"{name}_{entry.label}"]; the key is held as the pair.
SensorEntry(e) ==
    [key |-> <<e.name, e.label>>,
     current |-> e.current,
     health_score |-> SensorHealthScore(e.current)]

KeyOf(e) == e.key

\* The loop with the mean taken over the entries of temp_data, where a
\* repeated name and label leaves one score.
RECURSIVE TemperatureLoopByKey(_, _, _)
TemperatureLoopByKey(entries, temp_data, scores) ==
    IF entries = <<>>
    THEN [temp_data |-> temp_data,
          health_scores |-> [i \in 1..Len(temp_data) |-> Points(temp_data[i].health_score)]]
    ELSE LET e == Head(entries)
         IN  TemperatureLoopByKey(Tail(entries),
                                  DictSet(temp_data,
                                          [i \in 1..Len(temp_data) |-> KeyOf(temp_data[i])],
                                          <<e.name, e.label>>, SensorEntry(e)),
                                  scores)

\* The loops over temps.items() and their entries, flattened in the order
\* the provider gives them.
RECURSIVE TemperatureLoop(_, _, _)
TemperatureLoop(entries, temp_data, scores) ==
    IF entries = <<>>
    THEN [temp_data |-> temp_data, health_scores |-> scores]
    ELSE LET e == Head(entries)
         IN  TemperatureLoop(Tail(entries),
                             DictSet(temp_data,
                                     [i \in 1..Len(temp_data) |-> KeyOf(temp_data[i])],
                                     <<e.name, e.label>>, SensorEntry(e)),
                             Append(scores, Points(SensorHealthScore(e.current))))

TemperatureResult(t) ==
    IF t.kind = "error"
    THEN [data |-> [error |-> "error"], score |-> Points(85)]
    ELSE LET loop == TemperatureLoop(t.entries, <<>>, <<>>)
         IN  [data |-> [sensors |-> loop.temp_data],
              score |-> IF loop.health_scores # <<>>
                        THEN Mean(loop.health_scores)
                        ELSE Points(85)]

\* ---- check_performance ---------------------------------------------------

\* cpu_percent in tenths of a percent.
PerformanceHealth(cpu_percent) ==
    IF cpu_percent > 900 THEN 30
    ELSE IF cpu_percent > 700 THEN 60
    ELSE 90

PerformanceResult(c) ==
    IF c.kind = "error"
    THEN [data |-> [error |-> "error"], score |-> Points(70)]
    ELSE [data |-> [cpu_usage |-> c.cpu_percent,
                    health_score |-> PerformanceHealth(c.cpu_percent)],
          score |-> Points(PerformanceHealth(c.cpu_percent))]

\* ---- generate_predictions ------------------------------------------------

\* d.get(k, default)
Get(d, k, default) == IF k \in DOMAIN d THEN d[k] ELSE default

Has(d, k) == k \in DOMAIN d

\* The label of a remaining life: one of the two fixed ranges, or a number
\* of years printed with one decimal (tenths holds it, else 0).
FixedLife(text) == [text |-> text, tenths |-> 0]
YearsLife(tenths) == [text |-> "years", tenths |-> tenths]

\* The record stored in self.predictions.  component and device make the
\* key: 'Battery', 'Memory (RAM)' or f'Storage ({device})'.
Prediction(component, device, age, unit, lifespan, remaining, risk) ==
    [component |-> component, device |-> device,
     current_age |-> [n |-> age, unit |-> unit],
     estimated_lifespan |-> lifespan,
     remaining_life |-> remaining,
     risk_level |-> risk]

PredictionKey(p) == <<p.component, p.device>>

\* list(self.predictions.keys())
PredictionKeys(preds) == [i \in 1..Len(preds) |-> PredictionKey(preds[i])]

\* battery_data is diagnostic_data['battery'] with present true; health_score
\* and estimated_remaining_years are in tenths.
BatteryPrediction(battery_data) ==
    LET health == Get(battery_data, "health_score", 500)
        years == Get(battery_data, "estimated_remaining_years", 10)
        cycles == Get(battery_data, "estimated_cycles", 0)
    IN  IF health < 300
        THEN Prediction("Battery", "", cycles, "cycles", "500-1000 cycles",
                        FixedLife("3-6 months"), "HIGH")
        ELSE IF health < 600
        THEN Prediction("Battery", "", cycles, "cycles", "500-1000 cycles",
                        FixedLife("6-12 months"), "MEDIUM")
        ELSE Prediction("Battery", "", cycles, "cycles", "500-1000 cycles",
                        YearsLife(years), "LOW")

MemoryPrediction(mem_data) ==
    LET age == Get(mem_data, "estimated_age_years", 0)
        remaining == Get(mem_data, "estimated_remaining_years", 0)
        risk_level == IF remaining < 1 THEN "HIGH"
                      ELSE IF remaining < 3 THEN "MEDIUM"
                      ELSE "LOW"
    IN  Prediction("Memory (RAM)", "", age, "years", "8-10 years",
                   YearsLife(10 * remaining), risk_level)

\* The storage record with <= for < in the risk tests.
StoragePredictionInclusive(storage_data) ==
    LET age == Get(storage_data, "estimated_age_years", 0)
        remaining == Get(storage_data, "estimated_remaining_years", 0)
        drive_type == Get(storage_data, "drive_type", "HDD")
        risk_level == IF remaining <= 1 THEN "HIGH"
                      ELSE IF remaining <= 2 THEN "MEDIUM"
                      ELSE "LOW"
    IN  Prediction("Storage", storage_data.device, age, "years",
                   IF drive_type = "SSD" THEN "8-10 years" ELSE "5-7 years",
                   YearsLife(10 * remaining), risk_level)

StoragePrediction(storage_data) ==
    LET age == Get(storage_data, "estimated_age_years", 0)
        remaining == Get(storage_data, "estimated_remaining_years", 0)
        drive_type == Get(storage_data, "drive_type", "HDD")
        risk_level == IF remaining < 1 THEN "HIGH"
                      ELSE IF remaining < 2 THEN "MEDIUM"
                      ELSE "LOW"
    IN  Prediction("Storage", storage_data.device, age, "years",
                   IF drive_type = "SSD" THEN "8-10 years" ELSE "5-7 years",
                   YearsLife(10 * remaining), risk_level)

\* The loop over diagnostic_data['storage'].items(): the error dict holds one
\* item whose value is a string, which the isinstance test skips.
RECURSIVE StoragePredictions(_, _)
StoragePredictions(devices, preds) ==
    IF devices = <<>> THEN preds
    ELSE StoragePredictions(
             Tail(devices),
             IF Has(Head(devices), "health_score")
             THEN DictSet(preds, PredictionKeys(preds),
                          <<"Storage", Head(devices).device>>,
                          StoragePrediction(Head(devices)))
             ELSE preds)

\* Predictions with a record for the temperature entry as well.
GeneratePredictionsAll(data) ==
    LET p1 == IF Has(data, "battery") /\ Get(data["battery"], "present", FALSE)
              THEN <<BatteryPrediction(data["battery"])>>
              ELSE <<>>
        p2 == IF Has(data, "memory")
              THEN Append(p1, MemoryPrediction(data["memory"]))
              ELSE p1
        p3 == IF Has(data, "storage")
              THEN StoragePredictions(Get(data["storage"], "devices", <<>>), p2)
              ELSE p2
    IN  IF Has(data, "temperature")
        THEN Append(p3, Prediction("Temperature", "", 0, "years", "8-10 years",
                                   YearsLife(0), "LOW"))
        ELSE p3

\* Predictions with the storage block ahead of the battery and memory blocks.
GeneratePredictionsStorageFirst(data) ==
    LET p1 == IF Has(data, "storage")
              THEN StoragePredictions(Get(data["storage"], "devices", <<>>), <<>>)
              ELSE <<>>
        p2 == IF Has(data, "battery") /\ Get(data["battery"], "present", FALSE)
              THEN Append(p1, BatteryPrediction(data["battery"]))
              ELSE p1
    IN  IF Has(data, "memory")
        THEN Append(p2, MemoryPrediction(data["memory"]))
        ELSE p2

\* self.predictions after generate_predictions, as the sequence of its values
\* in insertion order.
GeneratePredictions(data) ==
    LET p1 == IF Has(data, "battery") /\ Get(data["battery"], "present", FALSE)
              THEN <<BatteryPrediction(data["battery"])>>
              ELSE <<>>
        p2 == IF Has(data, "memory")
              THEN DictSet(p1, PredictionKeys(p1), <<"Memory (RAM)", "">>,
                           MemoryPrediction(data["memory"]))
              ELSE p1
    IN  IF Has(data, "storage")
        THEN StoragePredictions(Get(data["storage"], "devices", <<>>), p2)
        ELSE p2

\* ---- update_details, update_health_summary -------------------------------

\* sum(self.health_scores.values()), in Scale units.
RECURSIVE SumScores(_, _)
SumScores(scores, keys) ==
    IF keys = {} THEN 0
    ELSE LET k == CHOOSE x \in keys : TRUE
         IN  scores[k] + SumScores(scores, keys \ {k})

\* The sum over the five components, an absent one counting as zero.
OverallHealthOfFive(scores) ==
    SumScores(scores, DOMAIN scores) \div Cardinality(ComponentNames)

\* sum(self.health_scores.values()) / len(self.health_scores)
OverallHealth(scores) ==
    SumScores(scores, DOMAIN scores) \div Cardinality(DOMAIN scores)

\* The bands with > for >=: 85, 70 and 50 fall one band lower.
OverallStatusExclusive(overall_health) ==
    IF overall_health > Points(85) THEN "EXCELLENT"
    ELSE IF overall_health > Points(70) THEN "GOOD"
    ELSE IF overall_health > Points(50) THEN "FAIR"
    ELSE "POOR"

OverallStatus(overall_health) ==
    IF overall_health >= Points(85) THEN "EXCELLENT"
    ELSE IF overall_health >= Points(70) THEN "GOOD"
    ELSE IF overall_health >= Points(50) THEN "FAIR"
    ELSE "POOR"

\* An assessment that reports a mean of zero for an empty set of scores.
OverallAssessmentZero(scores) ==
    IF DOMAIN scores = {}
    THEN [overall |-> <<0>>, status |-> <<"POOR">>]
    ELSE [overall |-> <<RoundTenths(OverallHealth(scores), Scale)>>,
          status |-> <<OverallStatus(OverallHealth(scores))>>]

\* What the report and the summary say about the whole system: nothing when
\* health_scores is empty, else the mean printed with one decimal (in
\* tenths) and the status word.  overall and status hold zero or one value.
OverallAssessment(scores) ==
    IF DOMAIN scores = {}
    THEN [overall |-> <<>>, status |-> <<>>]
    ELSE [overall |-> <<RoundTenths(OverallHealth(scores), Scale)>>,
          status |-> <<OverallStatus(OverallHealth(scores))>>]

(***************************************************************************)
(* The application state.                                                  *)
(***************************************************************************)
VARIABLES
    check_vars,       \* self.check_vars: component -> the checkbox is ticked
    scan_button,      \* state of self.scan_button: "normal" or "disabled"
    progress,         \* self.progress['value'], the option the bar is drawn from
    progress_value,   \* the attribute self.progress.value: none, or one value
                      \* in 1/ProgressScale percent
    diagnostic_data,  \* self.diagnostic_data
    health_scores,    \* self.health_scores: component -> score in Scale units
    predictions,      \* self.predictions, its values in insertion order
    details_text,     \* the OVERALL ASSESSMENT lines of self.details_text
    health_text,      \* the Overall and Score lines of self.health_text
    predictions_tree, \* the rows of self.predictions_tree
    pc,               \* where the scan thread stands in run_diagnostics
    total_steps,      \* local of run_diagnostics
    current_step,     \* local of run_diagnostics
    after_queue,      \* callbacks scheduled with root.after(0, ...), oldest first
    readings,         \* history: what each reader returned in the current scan
    scan_result,      \* history: "none", "running", "completed" or "error"
    start_selection,  \* history: check_vars when start_scan last ran
    toggles           \* history: checkbox clicks since start_scan disabled the button

vars == <<check_vars, scan_button, progress, progress_value, diagnostic_data,
          health_scores,
          predictions, details_text, health_text, predictions_tree, pc,
          total_steps, current_step, after_queue, readings, scan_result,
          start_selection, toggles>>

gui == <<details_text, health_text, predictions_tree>>
results == <<diagnostic_data, health_scores, predictions>>
thread == <<pc, total_steps, current_step>>
history == <<readings, scan_result, start_selection, toggles>>

\* update_progress is called with (current_step / total_steps) * 100,
\* total_steps in 2..7; one percent is ProgressScale units.
ProgressScale == LcmUpTo(7)

ProgressValue(step, steps) == (step * 100 * ProgressScale) \div steps

Callback(fn, value) == [fn |-> fn, value |-> value]

\* update_progress(value): root.after(0, lambda: setattr(self.progress, 'value', value))
update_progress(queue, value) == Append(queue, Callback("set_progress", value))

\* __init__ and create_widgets: every checkbox ticked, empty dicts, empty
\* widgets, no scan thread, nothing scheduled.
Init ==
    /\ check_vars = [c \in ComponentNames |-> TRUE]
    /\ scan_button = "normal"
    /\ progress = 0
    /\ progress_value = <<>>
    /\ diagnostic_data = Empty
    /\ health_scores = Empty
    /\ predictions = <<>>
    /\ details_text = [overall |-> <<>>, status |-> <<>>]
    /\ health_text = [overall |-> <<>>, status |-> <<>>]
    /\ predictions_tree = <<>>
    /\ pc = "idle"
    /\ total_steps = 0
    /\ current_step = 0
    /\ after_queue = <<>>
    /\ readings = Empty
    /\ scan_result = "none"
    /\ start_selection = [c \in ComponentNames |-> TRUE]
    /\ toggles = 0

\* ---- the main loop -------------------------------------------------------

\* A start_scan that leaves the button enabled while the scan runs.
start_scan_enabled ==
    /\ scan_button = "normal"
    /\ progress' = 0
    /\ diagnostic_data' = Empty
    /\ health_scores' = Empty
    /\ predictions' = <<>>
    /\ pc' = "system"
    /\ total_steps' = 0
    /\ current_step' = 0
    /\ readings' = Empty
    /\ scan_result' = "running"
    /\ start_selection' = check_vars
    /\ toggles' = 0
    /\ UNCHANGED <<check_vars, scan_button, progress_value, gui, after_queue>>

\* A start_scan that leaves the entries and the scores of the scan before.
start_scan_keeping ==
    /\ scan_button = "normal"
    /\ scan_button' = "disabled"
    /\ progress' = 0
    /\ predictions' = <<>>
    /\ pc' = "system"
    /\ total_steps' = 0
    /\ current_step' = 0
    /\ readings' = Empty
    /\ scan_result' = "running"
    /\ start_selection' = check_vars
    /\ toggles' = 0
    /\ UNCHANGED <<check_vars, progress_value, diagnostic_data, health_scores, gui,
                   after_queue>>

\* The user clicks the scan button; a disabled button runs no command.
start_scan ==
    /\ scan_button = "normal"
    /\ scan_button' = "disabled"
    /\ progress' = 0
    /\ diagnostic_data' = Empty
    /\ health_scores' = Empty
    /\ predictions' = <<>>
    /\ pc' = "system"
    /\ total_steps' = 0
    /\ current_step' = 0
    /\ readings' = Empty
    /\ scan_result' = "running"
    /\ start_selection' = check_vars
    /\ toggles' = 0
    /\ UNCHANGED <<check_vars, progress_value, gui, after_queue>>

\* The user clicks a component checkbox while no scan is under way.
Toggle(c) ==
    /\ scan_button = "normal"
    /\ check_vars' = [check_vars EXCEPT ![c] = ~check_vars[c]]
    /\ UNCHANGED <<scan_button, progress, progress_value, results, gui, thread,
                   after_queue, history>>

\* The user clicks a component checkbox between start_scan and the button
\* being enabled again, at most MaxToggles times in one scan.
ToggleDuringScan(c) ==
    /\ scan_button = "disabled"
    /\ toggles < MaxToggles
    /\ check_vars' = [check_vars EXCEPT ![c] = ~check_vars[c]]
    /\ toggles' = toggles + 1
    /\ UNCHANGED <<scan_button, progress, progress_value, results, gui, thread,
                   after_queue, readings, scan_result, start_selection>>

\* A row per prediction, in the order self.predictions.items() gives them.
PredictionRows(preds) ==
    [i \in 1..Len(preds) |->
        [text |-> PredictionKey(preds[i]), risk |-> preds[i].risk_level]]

\* The main loop runs the oldest scheduled callback.  The callback of
\* update_progress is setattr(self.progress, 'value', value): it sets the
\* attribute of the widget object, not the option self.progress['value'].
RunCallback ==
    /\ after_queue # <<>>
    /\ after_queue' = Tail(after_queue)
    /\ LET cb == Head(after_queue)
       IN  /\ progress_value' = IF cb.fn = "set_progress"
                                THEN <<cb.value>>
                                ELSE progress_value
           /\ details_text' = IF cb.fn = "update_details"
                              THEN OverallAssessment(health_scores)
                              ELSE details_text
           /\ health_text' = IF cb.fn = "update_health_summary"
                             THEN OverallAssessment(health_scores)
                             ELSE health_text
           /\ predictions_tree' = IF cb.fn = "update_predictions"
                                  THEN PredictionRows(predictions)
                                  ELSE predictions_tree
           /\ scan_button' = IF cb.fn = "enable_scan_button"
                             THEN "normal"
                             ELSE scan_button
    /\ UNCHANGED <<check_vars, progress, results, thread, history>>

\* ---- the scan thread: run_diagnostics ------------------------------------

\* The scorers as methods: each stores its entry and its score.
Store(component, result) ==
    /\ diagnostic_data' = Put(diagnostic_data, component, result.data)
    /\ health_scores' = Put(health_scores, component, result.score)

check_battery_health(b) == Store("battery", BatteryResult(b))
check_memory_health(m) == Store("memory", MemoryResult(m))
check_storage_health(s) == Store("storage", StorageResult(s))
check_temperatures(t) == Store("temperature", TemperatureResult(t))
check_performance(c) == Store("performance", PerformanceResult(c))

\* The scorer run_diagnostics calls for component, on reading r.
check(component, r) ==
    IF component = "battery" THEN check_battery_health(r)
    ELSE IF component = "memory" THEN check_memory_health(r)
    ELSE IF component = "storage" THEN check_storage_health(r)
    ELSE IF component = "temperature" THEN check_temperatures(r)
    ELSE check_performance(r)

\* One "if self.check_vars[component].get():" block of run_diagnostics: the
\* scorer runs on what its reader returns, the step is counted and the
\* progress scheduled; an unticked component is passed over.
RunCheck(at, component, Readings, next) ==
    /\ pc = at
    /\ pc' = next
    /\ IF check_vars[component]
       THEN /\ \E r \in Readings :
                 /\ check(component, r)
                 /\ readings' = Put(readings, component, r)
            /\ current_step' = current_step + 1
            /\ after_queue' = update_progress(
                   after_queue, ProgressValue(current_step + 1, total_steps))
       ELSE UNCHANGED <<diagnostic_data, health_scores, readings, current_step,
                        after_queue>>
    /\ UNCHANGED <<check_vars, scan_button, progress, progress_value, predictions, gui,
                   total_steps, scan_result, start_selection, toggles>>

\* total_steps = sum(1 for var in self.check_vars.values() if var.get()) + 2
CountTicked(cv) == Cardinality({c \in ComponentNames : cv[c]})

\* finally: root.after(0, lambda: self.scan_button.config(state='normal', ...))
finally(queue) == Append(queue, Callback("enable_scan_button", 0))

\* The head of run_diagnostics: total_steps, then get_system_info, which
\* either stores the 'system' entry or raises (psutil.boot_time() can).  An
\* exception goes to the except clause and to finally, and the thread ends.
RunSystemInfo(Outcomes) ==
    /\ pc = "system"
    /\ \E outcome \in Outcomes :
          IF outcome = "ok"
          THEN /\ diagnostic_data' = Put(diagnostic_data, "system", [platform |-> "Linux"])
               /\ total_steps' = CountTicked(check_vars) + 2
               /\ current_step' = 1
               /\ after_queue' = update_progress(
                      after_queue, ProgressValue(1, CountTicked(check_vars) + 2))
               /\ pc' = "battery"
               /\ UNCHANGED scan_result
          ELSE /\ after_queue' = finally(after_queue)
               /\ pc' = "done"
               /\ scan_result' = "error"
               /\ UNCHANGED <<diagnostic_data, total_steps, current_step>>
    /\ UNCHANGED <<check_vars, scan_button, progress, progress_value, health_scores,
                   predictions,
                   gui, readings, start_selection, toggles>>

RunBattery(Readings) ==
    RunCheck("battery", "battery", Readings, "memory")

RunMemory(Readings) ==
    RunCheck("memory", "memory", Readings, "storage")

RunStorage(Readings) ==
    RunCheck("storage", "storage", Readings, "temperature")

RunTemperature(Readings) ==
    RunCheck("temperature", "temperature", Readings, "performance")

RunPerformance(Readings) ==
    RunCheck("performance", "performance", Readings, "predict")

\* self.predictions = {} and the three blocks that fill it.
generate_predictions == predictions' = GeneratePredictions(diagnostic_data)

\* update_all_displays schedules the five updates, in this order.
update_all_displays(queue) ==
    queue \o <<Callback("update_overview", 0), Callback("update_analytics", 0),
               Callback("update_details", 0), Callback("update_predictions", 0),
               Callback("update_health_summary", 0)>>

\* The tail of run_diagnostics, from "Generate predictions" to finally, as
\* one step: past the last reader the thread reads no checkbox and writes
\* only self.predictions and the callback queue, so no main-loop step
\* falling between these statements can tell them apart from this step.
\* The thread ends and its locals with it.
RunPredictions ==
    /\ pc = "predict"
    /\ generate_predictions
    /\ after_queue' = finally(update_all_displays(
                          update_progress(after_queue, 100 * ProgressScale)))
    /\ scan_result' = "completed"
    /\ pc' = "done"
    /\ total_steps' = 0
    /\ current_step' = 0
    /\ UNCHANGED <<check_vars, scan_button, progress, progress_value, diagnostic_data,
                   health_scores,
                   gui, readings, start_selection, toggles>>

(***************************************************************************)
(* The readings.                                                           *)
(***************************************************************************)

Battery(percent, uptime) == [kind |-> "battery", percent |-> percent, uptime |-> uptime]
NoBattery == [kind |-> "none"]
Memory(percent, total_gb) == [kind |-> "ok", percent |-> percent, total_gb |-> total_gb]
Partition(device, fstype, usage, total, used) ==
    [device |-> device, fstype |-> fstype, usage |-> usage, total |-> total, used |-> used]
Partitions(ps) == [kind |-> "ok", partitions |-> ps]
Sensor(name, label, current) == [name |-> name, label |-> label, current |-> current]
Sensors(es) == [kind |-> "ok", entries |-> es]
Cpu(cpu_percent) == [kind |-> "ok", cpu_percent |-> cpu_percent]

SystemOutcomes == {"ok", "error"}

\* Every sequence over S of length lo to hi.
SeqsOf(S, lo, hi) == UNION {[1..n -> S] : n \in lo..hi}

\* One ordinary reading of each reader.
BatterySample == Battery(80, 1000)
MemorySample == Memory(920, 160)
StorageSample ==
    Partitions(<<Partition("/dev/nvme0n1p1", "ext4", "ok", 1200, 1152),
                 Partition("/dev/sda1", "ext4", "ok", 500, 100)>>)
TemperatureSample ==
    Sensors(<<Sensor("coretemp", "Core 0", 700), Sensor("coretemp", "Core 1", 820)>>)
PerformanceSample == Cpu(750)

\* The readings of a scan over any selection: the reader's failure, the
\* ordinary reading and a second one of another shape; for storage every
\* list of up to MaxParts partitions, with a device met twice and a
\* partition the user may not query.
BatteryReadings == {ReaderError, NoBattery, BatterySample}
MemoryReadings == {ReaderError, MemorySample, Memory(500, 40)}
ScanPartitions ==
    {Partition("/dev/nvme0n1p1", "ext4", "ok", 1200, 1152),
     Partition("/dev/sda1", "ext4", "ok", 500, 100),
     Partition("/dev/sda1", "ext4", "ok", 500, 450),
     Partition("/dev/sdb1", "NTFS", "PermissionError", 0, 0)}
StorageReadings ==
    {ReaderError} \cup {Partitions(ps) : ps \in SeqsOf(ScanPartitions, 0, MaxParts)}
TemperatureReadings == {ReaderError, Sensors(<<>>), TemperatureSample}
PerformanceReadings == {ReaderError, PerformanceSample}

\* The readings of a scan of a single component: the boundary values of
\* every test the scorers make.
BatteryProbes ==
    {ReaderError, NoBattery}
    \cup {Battery(80, uptime) :
            uptime \in {0, 10, 20, 30, 1000, 7990, 8000, 8008, 8010, 13990, 14000,
                        14008, 14010, 19990, 20000, 20010, 30000}}

MemoryProbes ==
    {ReaderError}
    \cup {Memory(percent, total_gb) :
            percent \in {0, 500, 699, 700, 701, 799, 800, 801, 899, 900, 901, 920, 1000},
            total_gb \in {40, 79, 80, 159, 160, 320}}

PartitionProbes ==
    {Partition("/dev/nvme0n1p1", "ext4", "ok", 1200, 1152),
     Partition("/dev/nvme0n1p1", "ext4", "ok", 1200, 600),
     Partition("/dev/nvme0n1p2", "ssdfs", "ok", 1000, 860),
     Partition("/dev/nvme0n1p2", "ssdfs", "ok", 1200, 1152),
     Partition("/dev/sda1", "ssdfs", "ok", 2000, 1900),
     Partition("/dev/sda1", "ext4", "ok", 500, 100),
     Partition("/dev/sda1", "", "ok", 1001, 701),
     Partition("/dev/sdb1", "NTFS", "ok", 1000, 700),
     Partition("/dev/sdb1", "NTFS", "ok", 1000, 850),
     Partition("/dev/sdb1", "NTFS", "PermissionError", 0, 0),
     Partition("/dev/sr0", "iso9660", "OSError", 0, 0),
     Partition("/dev/sdc1", "vfat", "ok", 0, 0)}

StorageProbes ==
    {ReaderError} \cup {Partitions(ps) : ps \in SeqsOf(PartitionProbes, 0, MaxParts)}

SensorProbes ==
    {Sensor(name, "", current) :
        name \in {"acpitz", "nvme"},
        current \in {450, 600, 601, 700, 701, 800, 801, 820}}

TemperatureProbes ==
    {ReaderError} \cup {Sensors(es) : es \in SeqsOf(SensorProbes, 0, MaxSensors)}

PerformanceProbes ==
    {ReaderError} \cup {Cpu(p) : p \in {0, 699, 700, 701, 899, 900, 901, 1000}}

\* The scan thread over the readings B, M, S, T and P of the five readers.
ScanThread(B, M, S, T, P) ==
    \/ RunSystemInfo(SystemOutcomes)
    \/ RunBattery(B)
    \/ RunMemory(M)
    \/ RunStorage(S)
    \/ RunTemperature(T)
    \/ RunPerformance(P)
    \/ RunPredictions

\* The first click on the scan button of a freshly constructed application.
first_scan == scan_result = "none" /\ start_scan

\* A checkbox click before the first scan.
ToggleBefore(c) == scan_result = "none" /\ Toggle(c)

(***************************************************************************)
(* Spec: the whole program, checkbox clicks during a scan included, over   *)
(* the ordinary readings.                                                  *)
(***************************************************************************)
Next ==
    \/ start_scan
    \/ \E c \in ComponentNames : Toggle(c)
    \/ \E c \in ComponentNames : ToggleDuringScan(c)
    \/ RunCallback
    \/ ScanThread({BatterySample}, {MemorySample}, {StorageSample},
                  {TemperatureSample}, {PerformanceSample})

Spec == Init /\ [][Next]_vars

(***************************************************************************)
(* RescanSpec: scan after scan with the checkboxes left alone while a scan *)
(* is under way; the battery and the memory readers may fail.              *)
(***************************************************************************)
RescanNext ==
    \/ start_scan
    \/ \E c \in ComponentNames : Toggle(c)
    \/ RunCallback
    \/ ScanThread({ReaderError, BatterySample}, {ReaderError, MemorySample},
                  {StorageSample}, {TemperatureSample}, {PerformanceSample})

RescanSpec == Init /\ [][RescanNext]_vars

(***************************************************************************)
(* ScanSpec: one scan of a freshly constructed application, over any       *)
(* selection made before it.                                               *)
(***************************************************************************)
ScanNext ==
    \/ first_scan
    \/ \E c \in ComponentNames : ToggleBefore(c)
    \/ RunCallback
    \/ ScanThread(BatteryReadings, MemoryReadings, StorageReadings,
                  TemperatureReadings, PerformanceReadings)

ScanSpec == Init /\ [][ScanNext]_vars

(***************************************************************************)
(* ProbeSpec: one scan of a freshly constructed application with at most   *)
(* one component ticked, over the boundary readings.                       *)
(***************************************************************************)
probe_scan == CountTicked(check_vars) <= 1 /\ first_scan

ProbeNext ==
    \/ probe_scan
    \/ \E c \in ComponentNames : ToggleBefore(c)
    \/ RunCallback
    \/ ScanThread(BatteryProbes, MemoryProbes, StorageProbes, TemperatureProbes,
                  PerformanceProbes)

ProbeSpec == Init /\ [][ProbeNext]_vars

(***************************************************************************)
(* ToggleSpec: one scan of a freshly constructed application over the      *)
(* ordinary readings, with checkbox clicks before it and while it runs.    *)
(***************************************************************************)
SampleThread ==
    ScanThread({BatterySample}, {MemorySample}, {StorageSample},
               {TemperatureSample}, {PerformanceSample})

ToggleNext ==
    \/ first_scan
    \/ \E c \in ComponentNames : ToggleBefore(c)
    \/ \E c \in ComponentNames : ToggleDuringScan(c)
    \/ RunCallback
    \/ SampleThread

ToggleSpec == Init /\ [][ToggleNext]_vars

(***************************************************************************)
(* LiveSpec: scan after scan over the ordinary readings.  The scan thread  *)
(* is a started thread that blocks nowhere, and root.mainloop() runs what  *)
(* root.after(0, ...) schedules: a step of either that stays possible is   *)
(* taken.  Nothing makes the user click.                                   *)
(***************************************************************************)
LiveNext ==
    \/ start_scan
    \/ \E c \in ComponentNames : Toggle(c)
    \/ RunCallback
    \/ SampleThread

LiveSpec ==
    /\ Init
    /\ [][LiveNext]_vars
    /\ WF_vars(SampleThread)
    /\ WF_vars(RunCallback)

(***************************************************************************)
(* The claims.                                                             *)
(***************************************************************************)

\* The components ticked when the scan started.
Selected == {c \in ComponentNames : start_selection[c]}

\* The thread has ended without an exception.
ThreadCompleted == pc = "done" /\ scan_result = "completed"

\* The scan has completed and the main loop has run all it scheduled.
ScanShown == ThreadCompleted /\ after_queue = <<>>

\* The reader of component c failed, or its scorer gave up: the entry is the
\* error entry.
Failed(c) == Has(diagnostic_data, c) /\ Has(diagnostic_data[c], "error")

InRange(score) == 0 <= score /\ score <= 100

\* C1: every stored component score, and every per-partition and per-sensor
\* score, lies in [0, 100], whatever the readers returned.
C1_ScoresInRange ==
    /\ \A c \in DOMAIN health_scores :
          0 <= health_scores[c] /\ health_scores[c] <= Points(100)
    /\ \A c \in DOMAIN diagnostic_data \cap {"memory", "performance"} :
          Has(diagnostic_data[c], "health_score")
              => InRange(diagnostic_data[c].health_score)
    /\ (Has(diagnostic_data, "battery") /\ Has(diagnostic_data["battery"], "health_score"))
          => (0 <= diagnostic_data["battery"].health_score
              /\ diagnostic_data["battery"].health_score <= 1000)
    /\ (Has(diagnostic_data, "storage") /\ Has(diagnostic_data["storage"], "devices"))
          => \A i \in 1..Len(diagnostic_data["storage"].devices) :
                 InRange(diagnostic_data["storage"].devices[i].health_score)
    /\ (Has(diagnostic_data, "temperature") /\ Has(diagnostic_data["temperature"], "sensors"))
          => \A i \in 1..Len(diagnostic_data["temperature"].sensors) :
                 InRange(diagnostic_data["temperature"].sensors[i].health_score)

\* C1's case: a battery so old that 100 - estimated_cycles / 10 is negative
\* has been scored, at the lower end of the range.
C1_Witness ==
    /\ ThreadCompleted
    /\ Has(readings, "battery")
    /\ readings["battery"].kind = "battery"
    /\ readings["battery"].uptime > 20000
    /\ health_scores["battery"] = 0

\* The score the scorer of component c gives reading r.
ScoreOf(c, r) ==
    IF c = "battery" THEN BatteryResult(r).score
    ELSE IF c = "memory" THEN MemoryResult(r).score
    ELSE IF c = "storage" THEN StorageResult(r).score
    ELSE IF c = "temperature" THEN TemperatureResult(r).score
    ELSE PerformanceResult(r).score

\* The sum over the components in S of f[c].
RECURSIVE SumOver(_, _)
SumOver(f, S) ==
    IF S = {} THEN 0
    ELSE LET c == CHOOSE x \in S : TRUE IN f[c] + SumOver(f, S \ {c})

\* C2: after a completed scan the scores held are those of exactly the
\* components ticked for it, and the overall health shown in the report and
\* in the summary is their sum divided by their count (to one decimal): an
\* unticked component is no term of the mean.
C2_MeanOverSelected ==
    ScanShown =>
        /\ DOMAIN health_scores = Selected
        /\ \A c \in Selected : health_scores[c] = ScoreOf(c, readings[c])
        /\ Selected # {} =>
              LET mean == SumOver([c \in Selected |-> ScoreOf(c, readings[c])], Selected)
                              \div Cardinality(Selected)
              IN  /\ details_text.overall = <<RoundTenths(mean, Scale)>>
                  /\ health_text.overall = <<RoundTenths(mean, Scale)>>

\* C2's case: a scan of some but not all components has completed and its
\* mean is shown.
C2_Witness ==
    /\ ScanShown
    /\ Cardinality(Selected) = 3
    /\ ~ start_selection["battery"]
    /\ ~ start_selection["performance"]
    /\ details_text.overall # <<>>

\* C3: when the battery reader raises, the battery score is the fallback 50
\* and the battery entry records the error, and each other ticked component
\* is still scored, with the score its own reading gives.
C3_BatteryFailureContained ==
    (ThreadCompleted /\ Has(readings, "battery") /\ readings["battery"] = ReaderError) =>
        /\ health_scores["battery"] = Points(50)
        /\ Has(diagnostic_data["battery"], "error")
        /\ \A c \in Selected \ {"battery"} :
              /\ Has(health_scores, c)
              /\ Has(readings, c)
              /\ health_scores[c] = ScoreOf(c, readings[c])

\* C3's case: the battery reader raised and the four other scorers ran on
\* readings that did not fail.
C3_Witness ==
    /\ ThreadCompleted
    /\ Selected = ComponentNames
    /\ readings["battery"] = ReaderError
    /\ \A c \in ComponentNames \ {"battery"} : ~ Failed(c)

\* The fallback score of each scorer's except clause.
Fallback(c) ==
    IF c = "temperature" THEN 85
    ELSE IF c = "performance" THEN 70
    ELSE 50

\* The overall health the displays would show for the mean of f over S.
ShownMean(f, S) ==
    IF S = {} THEN <<>>
    ELSE <<RoundTenths(SumOver(f, S) \div Cardinality(S), Scale)>>

\* C4 as claimed: a component whose reading failed is absent from the
\* result set, so the overall health shown is the mean over the ticked
\* components that did not fail.
C4_FailedDomainAbsent ==
    ScanShown =>
        LET present == {c \in Selected : ~ Failed(c)}
        IN  /\ \A c \in Selected : Failed(c) => ~ Has(health_scores, c)
            /\ details_text.overall = ShownMean(health_scores, present)

\* C4 as amended: a component whose reading failed stays in the result set
\* with its scorer's fallback score, and the overall health shown is the
\* mean over every ticked component, the fallback being the failed one's
\* term.
C4_FailedDomainFallback ==
    ScanShown =>
        LET term == [c \in Selected |->
                        IF Failed(c) THEN Points(Fallback(c))
                        ELSE ScoreOf(c, readings[c])]
        IN  /\ \A c \in Selected : Failed(c) => health_scores[c] = Points(Fallback(c))
            /\ details_text.overall = ShownMean(term, Selected)
            /\ health_text.overall = ShownMean(term, Selected)

\* C4's case: the memory reader failed in a scan of several components and
\* the scan is shown.
C4_Witness ==
    /\ ScanShown
    /\ Failed("memory")
    /\ Cardinality(Selected) >= 2
    /\ \E c \in Selected : ~ Failed(c)

\* A partition the usage query answers for, with a size to divide by.
Readable(p) == p.usage = "ok" /\ p.total > 0

\* C5 as claimed: whatever makes a partition impossible to query, a
\* permission error, any other failure of the query or a total of zero
\* bytes, that partition alone is skipped: every other partition keeps its
\* entry and the storage score is the mean over them.
C5_UnreadablePartitionSkipped ==
    (ThreadCompleted /\ Has(readings, "storage") /\ readings["storage"].kind = "ok") =>
        LET readable == SelectSeq(readings["storage"].partitions, Readable)
            scores == [i \in 1..Len(readable) |->
                          Points(PartitionHealthScore(readable[i].used, readable[i].total))]
        IN  /\ Has(diagnostic_data["storage"], "devices")
            /\ \A i \in 1..Len(readable) :
                  \E j \in 1..Len(diagnostic_data["storage"].devices) :
                      diagnostic_data["storage"].devices[j].device = readable[i].device
            /\ health_scores["storage"] =
                  IF readable = <<>> THEN Points(50) ELSE Mean(scores)

\* The entry the scorer of component c stores for reading r.
DataOf(c, r) ==
    IF c = "battery" THEN BatteryResult(r).data
    ELSE IF c = "memory" THEN MemoryResult(r).data
    ELSE IF c = "storage" THEN StorageResult(r).data
    ELSE IF c = "temperature" THEN TemperatureResult(r).data
    ELSE PerformanceResult(r).data

\* What one scan of the current readings under the current selection leaves
\* in an application that has scanned nothing before.
FreshData ==
    [k \in {"system"} \cup Selected |->
        IF k = "system" THEN [platform |-> "Linux"] ELSE DataOf(k, readings[k])]
FreshScores == [c \in Selected |-> ScoreOf(c, readings[c])]

\* C6: however many scans came before, what the application holds after a
\* scan, and shows once the displays are refreshed, is what that scan alone
\* gives from a fresh start: nothing of an earlier scan is left or merged.
C6_LastScanOnly ==
    /\ ThreadCompleted =>
          /\ diagnostic_data = FreshData
          /\ health_scores = FreshScores
          /\ predictions = GeneratePredictions(FreshData)
    /\ (pc = "done" /\ scan_result = "error") =>
          /\ diagnostic_data = Empty
          /\ health_scores = Empty
          /\ predictions = <<>>
    /\ ScanShown =>
          /\ details_text = OverallAssessment(FreshScores)
          /\ health_text = OverallAssessment(FreshScores)
          /\ predictions_tree = PredictionRows(GeneratePredictions(FreshData))

\* C6's case: a scan without the battery has completed while the tree still
\* shows the Battery row of a scan before it.
C6_Witness ==
    /\ ThreadCompleted
    /\ ~ start_selection["battery"]
    /\ health_scores # Empty
    /\ \E i \in 1..Len(predictions_tree) : predictions_tree[i].text[1] = "Battery"

\* C7: a scan with no component ticked completes without error, holds no
\* score and no prediction, and the displays report no overall health at
\* all, not a zero.
C7_EmptySelection ==
    /\ (pc = "done" /\ Selected = {} /\ Has(diagnostic_data, "system")) =>
          /\ scan_result = "completed"
          /\ health_scores = Empty
          /\ predictions = <<>>
    /\ (ScanShown /\ Selected = {}) =>
          /\ details_text.overall = <<>>
          /\ details_text.status = <<>>
          /\ health_text.overall = <<>>
          /\ predictions_tree = <<>>

\* C7's case: the scan of an empty selection has completed and is shown.
C7_Witness == ScanShown /\ Selected = {} /\ DOMAIN diagnostic_data = {"system"}

\* C8: predictions are made for the battery, the memory and the storage
\* devices only; the temperature and the performance never get one.
C8_PredictedComponents ==
    /\ \A i \in 1..Len(predictions) :
          predictions[i].component \in {"Battery", "Memory (RAM)", "Storage"}
    /\ \A i \in 1..Len(predictions_tree) :
          predictions_tree[i].text[1] \in {"Battery", "Memory (RAM)", "Storage"}

\* C8's case: temperature and performance were scored and enter the mean
\* shown, and the scan made predictions.
C8_Witness ==
    /\ ScanShown
    /\ Selected = ComponentNames
    /\ ~ Failed("temperature")
    /\ ~ Failed("performance")
    /\ predictions # <<>>
    /\ details_text.overall = ShownMean(health_scores, ComponentNames)

\* xs without the later occurrences of a value.
RECURSIVE FirstOccurrences(_, _)
FirstOccurrences(xs, seen) ==
    IF xs = <<>> THEN <<>>
    ELSE IF Head(xs) \in seen THEN FirstOccurrences(Tail(xs), seen)
    ELSE <<Head(xs)>> \o FirstOccurrences(Tail(xs), seen \cup {Head(xs)})

\* The devices of the partitions scored, in the order the provider lists
\* them.
DevicesInOrder ==
    IF Has(readings, "storage") /\ ~ Failed("storage")
    THEN LET readable == SelectSeq(readings["storage"].partitions, Readable)
         IN  FirstOccurrences([i \in 1..Len(readable) |-> readable[i].device], {})
    ELSE <<>>

\* C9: the predictions are ordered Battery (if any), Memory (if any), then
\* the storage devices in the provider's order; the tree shows them so.
C9_PredictionOrder ==
    LET keys == PredictionKeys(predictions)
        battery == IF \E i \in 1..Len(keys) : keys[i][1] = "Battery"
                   THEN << <<"Battery", "">> >> ELSE <<>>
        memory == IF \E i \in 1..Len(keys) : keys[i][1] = "Memory (RAM)"
                  THEN << <<"Memory (RAM)", "">> >> ELSE <<>>
        storage == [i \in 1..Len(DevicesInOrder) |-> <<"Storage", DevicesInOrder[i]>>]
    IN  /\ ThreadCompleted => keys = battery \o memory \o storage
        /\ ScanShown =>
              [i \in 1..Len(predictions_tree) |-> predictions_tree[i].text] = keys

\* C9's case: a scan with a battery, the memory and two storage devices is
\* shown, the devices in the order read.
C9_Witness ==
    /\ ScanShown
    /\ Len(predictions) = 4
    /\ predictions[1].component = "Battery"
    /\ predictions[3].device = "/dev/sda1"
    /\ predictions[4].device = "/dev/nvme0n1p1"

\* C10: the memory score is 30 above 90 percent in use, 60 above 80, 80
\* above 70, else 95, each bound belonging to the band below it; the
\* performance score is 30 above 90 percent CPU, 60 above 70, else 90; and
\* no lower usage scores lower.  Percentages are in tenths.
C10_MemoryAndPerformanceBands ==
    /\ (ThreadCompleted /\ Has(readings, "memory") /\ readings["memory"].kind = "ok") =>
          LET used == readings["memory"].percent
          IN  /\ used > 900 => health_scores["memory"] = Points(30)
              /\ (800 < used /\ used <= 900) => health_scores["memory"] = Points(60)
              /\ (700 < used /\ used <= 800) => health_scores["memory"] = Points(80)
              /\ used <= 700 => health_scores["memory"] = Points(95)
              /\ diagnostic_data["memory"].health_score * Scale = health_scores["memory"]
              /\ \A lower \in 0..used :
                    Points(MemoryHealthScore(lower)) >= health_scores["memory"]
    /\ (ThreadCompleted /\ Has(readings, "performance")
            /\ readings["performance"].kind = "ok") =>
          LET cpu == readings["performance"].cpu_percent
          IN  /\ cpu > 900 => health_scores["performance"] = Points(30)
              /\ (700 < cpu /\ cpu <= 900) => health_scores["performance"] = Points(60)
              /\ cpu <= 700 => health_scores["performance"] = Points(90)
              /\ \A lower \in 0..cpu :
                    Points(PerformanceHealth(lower)) >= health_scores["performance"]

\* C10's case: memory exactly 90 percent in use has been scored 60.
C10_Witness ==
    /\ ThreadCompleted
    /\ Has(readings, "memory")
    /\ readings["memory"].kind = "ok"
    /\ readings["memory"].percent = 900
    /\ health_scores["memory"] = Points(60)

\* The score the storage bands give a partition with used of total in use.
ClaimedPartitionScore(p) ==
    IF 100 * p.used > 95 * p.total THEN 20
    ELSE IF 100 * p.used > 85 * p.total THEN 50
    ELSE IF 100 * p.used > 70 * p.total THEN 75
    ELSE 90

\* C11 as claimed: every readable partition is scored 20 above 95 percent
\* used, 50 above 85, 75 above 70, else 90, and the storage score is the
\* mean of the scores of all readable partitions, 50 when there is none.
C11_StorageBandsAndMean ==
    (ThreadCompleted /\ Has(readings, "storage") /\ readings["storage"].kind = "ok") =>
        LET readable == SelectSeq(readings["storage"].partitions, Readable)
            scores == [i \in 1..Len(readable) |-> Points(ClaimedPartitionScore(readable[i]))]
        IN  /\ health_scores["storage"] =
                  IF readable = <<>> THEN Points(50) ELSE Mean(scores)
            /\ Has(diagnostic_data["storage"], "devices") =>
                  \A j \in 1..Len(diagnostic_data["storage"].devices) :
                      \E i \in 1..Len(readable) :
                          /\ readable[i].device = diagnostic_data["storage"].devices[j].device
                          /\ ClaimedPartitionScore(readable[i]) =
                                 diagnostic_data["storage"].devices[j].health_score

\* The score the temperature bands give a reading, in tenths of a degree.
ClaimedSensorScore(current) ==
    IF current > 800 THEN 20
    ELSE IF current > 700 THEN 50
    ELSE IF current > 600 THEN 75
    ELSE 95

\* The currents of the readings of the scan, in the provider's order.
SensorCurrents ==
    [i \in 1..Len(readings["temperature"].entries) |->
        readings["temperature"].entries[i].current]

\* The bands and the mean of C12: every sensor reading is scored 20 above 80
\* degrees, 50 above 70, 75 above 60, else 95; the temperature score is the
\* mean over all readings, one whose name and label repeat included, and 85
\* when there is no reading or the reader fails.
TemperatureBandsAndMean ==
    IF readings["temperature"].kind = "error"
    THEN health_scores["temperature"] = Points(85)
    ELSE LET es == readings["temperature"].entries
             scores == [i \in 1..Len(es) |-> Points(ClaimedSensorScore(es[i].current))]
             sensors == diagnostic_data["temperature"].sensors
         IN  /\ health_scores["temperature"] =
                   IF es = <<>> THEN Points(85) ELSE Mean(scores)
             /\ \A j \in 1..Len(sensors) :
                   \E i \in 1..Len(es) :
                       /\ <<es[i].name, es[i].label>> = sensors[j].key
                       /\ es[i].current = sensors[j].current
                       /\ ClaimedSensorScore(es[i].current) = sensors[j].health_score

\* C12 as claimed: the bands and the mean, and readings of 70.0 and 82.0
\* degrees are scored 50 and 20 and give the temperature score 35.
C12_TemperatureExample35 ==
    (ThreadCompleted /\ Has(readings, "temperature")) =>
        /\ TemperatureBandsAndMean
        /\ (readings["temperature"].kind = "ok" /\ SensorCurrents = <<700, 820>>) =>
              health_scores["temperature"] = Points(35)

\* C12 as amended: the bands and the mean, and readings of 70.0 and 82.0
\* degrees are scored 75 (70.0 is not above 70) and 20 and give the
\* temperature score 47.5.
C12_TemperatureBandsAndMean ==
    (ThreadCompleted /\ Has(readings, "temperature")) =>
        /\ TemperatureBandsAndMean
        /\ (readings["temperature"].kind = "ok" /\ SensorCurrents = <<700, 820>>) =>
              2 * health_scores["temperature"] = Points(95)

\* C12's case: two readings of one sensor name and label, 70.0 and 82.0
\* degrees, leave one entry and the mean of both scores.
C12_Witness ==
    /\ ThreadCompleted
    /\ Has(readings, "temperature")
    /\ readings["temperature"].kind = "ok"
    /\ SensorCurrents = <<700, 820>>
    /\ Len(diagnostic_data["temperature"].sensors) = 1
    /\ 2 * health_scores["temperature"] = Points(75) + Points(20)

\* C13: without a battery the battery score is 100; with one, for uptime in
\* days, estimatedCycles = max(1, uptime / 2), the score is
\* 100 - estimatedCycles / 10 clamped to [0, 100], remainingCycles =
\* max(0, 500 - estimatedCycles) and remainingYears = remainingCycles /
\* (365 / 2); no longer uptime scores higher and remainingYears is never
\* negative.  Uptime is in tenths of a day, so cycles count in twentieths.
C13_BatteryScoring ==
    (ThreadCompleted /\ Has(readings, "battery") /\ readings["battery"].kind # "error") =>
        IF readings["battery"].kind = "none"
        THEN health_scores["battery"] = Points(100)
        ELSE LET uptime == readings["battery"].uptime
                 cycles20 == Max(20, uptime)
                 score200 == Max(0, Min(20000, 20000 - cycles20))
                 remaining20 == Max(0, 20 * 500 - cycles20)
                 data == diagnostic_data["battery"]
             IN  /\ 200 * health_scores["battery"] = Scale * score200
                 /\ data.estimated_cycles = cycles20 \div 20
                 /\ data.remaining_cycles = remaining20 \div 20
                 /\ data.estimated_remaining_years = RoundTenths(remaining20, 3650)
                 /\ data.estimated_remaining_years >= 0
                 /\ \A shorter \in 0..uptime :
                       BatteryHealth200(shorter) * (Scale \div 200) >= health_scores["battery"]

\* C13's case: a battery after 100 days of uptime: 50 cycles, score 95, 450
\* cycles and 2.5 years left.
C13_Witness ==
    /\ ThreadCompleted
    /\ Has(readings, "battery")
    /\ readings["battery"].kind = "battery"
    /\ readings["battery"].uptime = 1000
    /\ health_scores["battery"] = Points(95)
    /\ diagnostic_data["battery"].estimated_cycles = 50
    /\ diagnostic_data["battery"].remaining_cycles = 450
    /\ diagnostic_data["battery"].estimated_remaining_years = 25

\* The record of component in the predictions, as a set of at most one.
PredictionsOf(component) ==
    {predictions[i] : i \in {j \in 1..Len(predictions) : predictions[j].component = component}}

\* The risk and the remaining life of a battery prediction decided by score,
\* in Scale units, with years the remaining years in tenths.
BatteryRiskBy(score, years, p) ==
    IF score < Points(30)
    THEN p.risk_level = "HIGH" /\ p.remaining_life = FixedLife("3-6 months")
    ELSE IF score < Points(60)
    THEN p.risk_level = "MEDIUM" /\ p.remaining_life = FixedLife("6-12 months")
    ELSE p.risk_level = "LOW" /\ p.remaining_life = YearsLife(years)

\* C14 as claimed: for a present battery the prediction's risk is decided
\* by the battery component score: HIGH and "3-6 months" below 30, MEDIUM
\* and "6-12 months" from 30 to below 60, else LOW and the remaining years
\* to one decimal.
C14_BatteryRiskByScore ==
    (ThreadCompleted /\ Has(readings, "battery") /\ readings["battery"].kind = "battery") =>
        /\ Cardinality(PredictionsOf("Battery")) = 1
        /\ \A p \in PredictionsOf("Battery") :
              BatteryRiskBy(health_scores["battery"],
                            diagnostic_data["battery"].estimated_remaining_years, p)

\* The risk the memory thresholds give remaining years: HIGH below 1,
\* MEDIUM from 1 to below 3, else LOW.
ClaimedMemoryRisk(remaining) ==
    IF remaining < 1 THEN "HIGH"
    ELSE IF remaining < 3 THEN "MEDIUM"
    ELSE "LOW"

\* C15: the memory prediction's risk is decided by remainingYears =
\* max(0, 10 - age), the age being 2 from 16 GB, 4 from 8 GB, else 6: HIGH
\* below 1, MEDIUM from 1 to below 3, else LOW, whatever the usage score (16
\* GB at 92 percent: score 30, risk LOW); the thresholds hold for every
\* number of remaining years the record can be made from.
C15_MemoryRisk ==
    /\ (ThreadCompleted /\ Has(readings, "memory") /\ readings["memory"].kind = "ok") =>
          LET total == readings["memory"].total_gb
              age == IF total >= 160 THEN 2 ELSE IF total >= 80 THEN 4 ELSE 6
              remaining == Max(0, 10 - age)
          IN  /\ diagnostic_data["memory"].estimated_age_years = age
              /\ diagnostic_data["memory"].estimated_remaining_years = remaining
              /\ Cardinality(PredictionsOf("Memory (RAM)")) = 1
              /\ \A p \in PredictionsOf("Memory (RAM)") :
                    /\ p.risk_level = ClaimedMemoryRisk(remaining)
                    /\ p.remaining_life = YearsLife(10 * remaining)
                    /\ p.current_age = [n |-> age, unit |-> "years"]
                    /\ (total = 160 /\ readings["memory"].percent = 920) =>
                          (health_scores["memory"] = Points(30) /\ p.risk_level = "LOW")
    /\ \A remaining \in 0..10 :
          MemoryPrediction([estimated_age_years |-> 10 - remaining,
                            estimated_remaining_years |-> remaining]).risk_level
              = ClaimedMemoryRisk(remaining)

\* C15's case: 16 GB at 92 percent in use: score 30, 8 years left, risk LOW.
C15_Witness ==
    /\ ThreadCompleted
    /\ Has(readings, "memory")
    /\ readings["memory"] = Memory(920, 160)
    /\ health_scores["memory"] = Points(30)
    /\ \E p \in PredictionsOf("Memory (RAM)") :
          p.risk_level = "LOW" /\ p.remaining_life = YearsLife(80)

\* The risk the storage thresholds give remaining years: HIGH below 1,
\* MEDIUM from 1 to below 2, else LOW.
ClaimedStorageRisk(remaining) ==
    IF remaining < 1 THEN "HIGH"
    ELSE IF remaining < 2 THEN "MEDIUM"
    ELSE "LOW"

\* The remaining years of partition p: lifespan less age, not below zero,
\* the age 2 and the lifespan 8 (solid-state) or 5 above 1000 GB, else 4 and
\* 10 (solid-state) or 6.  Solid-state is the hint the lifespan is chosen
\* by, the file system type.
ClaimedStorageRemaining(p) ==
    LET age == IF p.total > 1000 THEN 2 ELSE 4
        lifespan == IF p.total > 1000
                    THEN (IF FstypeHasSSD(p.fstype) THEN 8 ELSE 5)
                    ELSE (IF FstypeHasSSD(p.fstype) THEN 10 ELSE 6)
    IN  Max(0, lifespan - age)

\* The prediction records of storage device.
StoragePredictionsOf(device) == {p \in PredictionsOf("Storage") : p.device = device}

\* C16: the risk of every storage device's prediction is decided by its
\* remaining years, lifespan less age by size and drive type: HIGH below 1,
\* MEDIUM from 1 to below 2, else LOW, whatever the usage score (1200 GB
\* solid-state at 96 percent used: score 20, risk LOW); the thresholds hold
\* for every number of remaining years a record can be made from.
C16_StorageRisk ==
    /\ (ThreadCompleted /\ Has(readings, "storage") /\ ~ Failed("storage")) =>
          LET readable == SelectSeq(readings["storage"].partitions, Readable)
              devices == diagnostic_data["storage"].devices
          IN  \A j \in 1..Len(devices) :
                  \E i \in 1..Len(readable) :
                      /\ readable[i].device = devices[j].device
                      /\ devices[j].estimated_remaining_years =
                             ClaimedStorageRemaining(readable[i])
                      /\ Cardinality(StoragePredictionsOf(devices[j].device)) = 1
                      /\ \A p \in StoragePredictionsOf(devices[j].device) :
                            /\ p.risk_level =
                                   ClaimedStorageRisk(ClaimedStorageRemaining(readable[i]))
                            /\ p.remaining_life =
                                   YearsLife(10 * ClaimedStorageRemaining(readable[i]))
    /\ \A remaining \in 0..10 :
          StoragePrediction([device |-> "/dev/sda1", health_score |-> 90,
                             estimated_age_years |-> 4,
                             estimated_remaining_years |-> remaining,
                             drive_type |-> "HDD"]).risk_level
              = ClaimedStorageRisk(remaining)

\* C16's case: a 1200 GB solid-state partition 96 percent used is scored 20
\* and predicted LOW with 6 years left, beside a device with 2 years left.
C16_Witness ==
    /\ ThreadCompleted
    /\ Has(readings, "storage")
    /\ ~ Failed("storage")
    /\ \E j \in 1..Len(diagnostic_data["storage"].devices) :
          LET e == diagnostic_data["storage"].devices[j]
          IN  /\ e.filesystem = "ssdfs"
              /\ e.total_gb = 1200
              /\ e.health_score = 20
              /\ \E p \in StoragePredictionsOf(e.device) :
                    p.risk_level = "LOW" /\ p.remaining_life = YearsLife(60)
    /\ \E p \in PredictionsOf("Storage") :
          p.risk_level = "LOW" /\ p.remaining_life = YearsLife(20)

\* The band of the mean sum / count of scores in Scale units: EXCELLENT from
\* 85, GOOD from 70, FAIR from 50, else POOR.
ClaimedBand(sum, count) ==
    IF sum >= Points(85) * count THEN "EXCELLENT"
    ELSE IF sum >= Points(70) * count THEN "GOOD"
    ELSE IF sum >= Points(50) * count THEN "FAIR"
    ELSE "POOR"

\* C17: the status band shown depends on the overall mean alone, EXCELLENT
\* from 85, GOOD from 70, FAIR from 50, else POOR, and once a scan is shown
\* the detailed report and the health summary show the same mean and the
\* same band.
C17_OverallBand ==
    ScanShown =>
        /\ details_text = health_text
        /\ health_scores # Empty =>
              LET sum == SumOver(health_scores, DOMAIN health_scores)
                  count == Cardinality(DOMAIN health_scores)
              IN  /\ details_text.status = <<ClaimedBand(sum, count)>>
                  /\ details_text.overall = <<RoundTenths(sum, count * Scale)>>

\* C17's case: two or more scores with a mean of exactly 70 are shown as
\* GOOD in both displays.
C17_Witness ==
    /\ ScanShown
    /\ Cardinality(DOMAIN health_scores) >= 2
    /\ SumOver(health_scores, DOMAIN health_scores)
           = Points(70) * Cardinality(DOMAIN health_scores)
    /\ details_text.status = <<"GOOD">>
    /\ health_text.status = <<"GOOD">>

\* C18 as claimed: for every storage device one solid-state judgement
\* governs both outputs: the lifespan label is "8-10 years" exactly when the
\* numeric lifespan (age plus remaining years) is 8 or 10, "5-7 years"
\* exactly when it is 5 or 6, and a device without a known file system is
\* rotational in both.
C18_OneSolidStateJudgement ==
    (ThreadCompleted /\ Has(readings, "storage") /\ ~ Failed("storage")) =>
        \A j \in 1..Len(diagnostic_data["storage"].devices) :
            LET e == diagnostic_data["storage"].devices[j]
                lifespan == e.estimated_age_years + e.estimated_remaining_years
            IN  \A p \in StoragePredictionsOf(e.device) :
                    /\ p.estimated_lifespan = "8-10 years" <=> lifespan \in {8, 10}
                    /\ p.estimated_lifespan = "5-7 years" <=> lifespan \in {5, 6}
                    /\ e.filesystem = "" =>
                          (p.estimated_lifespan = "5-7 years" /\ lifespan \in {5, 6})

\* The name the predictions give component c.
PredictionName(c) ==
    IF c = "battery" THEN "Battery"
    ELSE IF c = "memory" THEN "Memory (RAM)"
    ELSE "Storage"

\* C19 as claimed: the predictions hold a record for a domain only when its
\* reading was obtained: after the battery, memory or storage reader raised,
\* there is no record for that domain.
C19_NoPredictionOnReaderError ==
    ThreadCompleted =>
        \A c \in {"battery", "memory", "storage"} :
            /\ (Has(readings, c) /\ readings[c] = ReaderError) =>
                  PredictionsOf(PredictionName(c)) = {}
            /\ ~ Has(readings, c) => PredictionsOf(PredictionName(c)) = {}

\* C20 as claimed: for any list of partitions, two of one device included,
\* every readable partition has one per-device entry and one storage
\* prediction, and the storage score is the mean of the scores the entries
\* hold.
C20_OneEntryPerPartition ==
    (ThreadCompleted /\ Has(readings, "storage") /\ ~ Failed("storage")) =>
        LET readable == SelectSeq(readings["storage"].partitions, Readable)
            devices == diagnostic_data["storage"].devices
            held == [j \in 1..Len(devices) |-> Points(devices[j].health_score)]
        IN  /\ Len(devices) = Len(readable)
            /\ Cardinality({i \in 1..Len(predictions) :
                               predictions[i].component = "Storage"}) = Len(readable)
            /\ health_scores["storage"] =
                  IF devices = <<>> THEN Points(50) ELSE Mean(held)

\* No scan thread is at work.
ThreadAtRest == pc \in {"idle", "done"}

DisplayUpdates ==
    {"update_overview", "update_analytics", "update_details", "update_predictions",
     "update_health_summary"}

\* The button stays disabled while the scan thread works, so start_scan,
\* which a disabled button does not run, never finds a thread at work; the
\* callback that enables the button is scheduled behind the display updates
\* of its scan, and once it has run nothing is left scheduled and the
\* displays show that scan.
ButtonGating ==
    /\ scan_button = "normal" => ThreadAtRest
    /\ ENABLED start_scan => ThreadAtRest
    /\ \A i, j \in 1..Len(after_queue) :
          (after_queue[i].fn = "enable_scan_button"
              /\ after_queue[j].fn \in DisplayUpdates \cup {"set_progress"}) => j < i
    /\ (pc = "done" /\ scan_button = "disabled") =>
          \E i \in 1..Len(after_queue) : after_queue[i].fn = "enable_scan_button"
    /\ scan_button = "normal" => after_queue = <<>>
    /\ (scan_button = "normal" /\ scan_result = "completed") =>
          /\ details_text = OverallAssessment(health_scores)
          /\ health_text = OverallAssessment(health_scores)
          /\ predictions_tree = PredictionRows(predictions)

\* C21: the scan button is disabled from start_scan until the scan thread has
\* finished, so one scan thread runs at a time and start_scan never clears
\* the dicts under a running scan; and every scan started, completed or
\* ended by an exception, is followed by the button being enabled again,
\* behind the display updates of that scan.
C21_ButtonGating ==
    /\ []ButtonGating
    /\ (scan_button = "disabled") ~> (scan_button = "normal")

\* C21's case: the button is enabled again after a scan that an exception
\* ended, the displays still showing the completed scan before it.
C21_Witness ==
    /\ scan_button = "normal"
    /\ scan_result = "error"
    /\ pc = "done"
    /\ details_text.overall # <<>>

\* The progress values of the scan in the order update_progress reported
\* them: the one last set, if any, then those still scheduled.
ReportedProgress ==
    LET scheduled == SelectSeq(after_queue, LAMBDA cb : cb.fn = "set_progress")
    IN  progress_value \o [i \in 1..Len(scheduled) |-> scheduled[i].value]

\* The components scored are those ticked when the scan started.
ScoredIsSelectionAtStart == ThreadCompleted => DOMAIN health_scores = Selected

ProgressNonDecreasing ==
    \A i, j \in 1..Len(ReportedProgress) :
        i < j => ReportedProgress[i] <= ReportedProgress[j]

ProgressAtMost100 ==
    \A i \in 1..Len(ReportedProgress) : ReportedProgress[i] <= 100 * ProgressScale

ProgressFullOnlyAfterPredictions ==
    \A i \in 1..Len(ReportedProgress) :
        ReportedProgress[i] >= 100 * ProgressScale => ThreadCompleted

\* C22 as claimed: within one scan, however the user's checkbox clicks fall
\* between the steps of the scan thread, the components scored are those
\* ticked when the scan started, and the progress reported never decreases,
\* never exceeds 100 and is 100 only once the predictions are generated.
C22_SelectionAndProgress ==
    /\ ScoredIsSelectionAtStart
    /\ ProgressNonDecreasing
    /\ ProgressAtMost100
    /\ ProgressFullOnlyAfterPredictions

====
